---- MODULE Spec2Model ----
(***************************************************************************)
(* AutoGLMUI: the WebSocket connection client (src/src/websocket_client.py) *)
(* and the application facade with its response hub (src/src/app.py).       *)
(*                                                                         *)
(* Threads.  Thread 0 is the startup retry (_connect_with_retry, whose      *)
(* connect() runs on an executor thread).  Thread t >= 1 is the receive     *)
(* thread of the t-th transport created by connect(): it runs run_forever,  *)
(* delivers on_open / on_message / on_error / on_close and, inside          *)
(* on_close, runs _attempt_reconnect (sleep, then connect()).               *)
(* Requests r are HTTP request tasks on the event loop.                     *)
(***************************************************************************)
EXTENDS Integers, Sequences, FiniteSets, TLC

\* ---------------------------------------------------------------- bounds
MaxTransports == 2
MaxRequests == 2
MaxIngest == 2
MaxShutdowns == 2
MaxLongIngest == 103
MaxChain == 6
MaxStartupRetries == 1
MaxStreamIngest == 10
MaxInstructionLen == 2
MaxCreated == 2

\* ------------------------------------------------------ program constants
max_reconnect_attempts == 5
max_responses == 100

Requests == 1..MaxRequests

DISCONNECTED == "disconnected"
CONNECTING == "connecting"
CONNECTED == "connected"
ERROR == "error"
ConnectionStatus == {DISCONNECTED, CONNECTING, CONNECTED, ERROR}

VARIABLES
  ws_client,           \* AutoGLMUI.ws_client is not None
  status,              \* WebSocketClient._status
  reconnect_attempts,  \* WebSocketClient._reconnect_attempts
  stop_event,          \* WebSocketClient._stop_event.is_set()
  ws,                  \* WebSocketClient.ws: 0 is None, t the t-th WebSocketApp
  sock,                \* sock[t]: transport t's ws.sock.connected
  pc,                  \* pc[th]: where thread th stands
  startAttempt,        \* _connect_with_retry's loop variable attempt
  cancelled,           \* the startup task was cancelled by shutdown()
  shutdowns,           \* number of shutdown() calls made
  last_heartbeat,      \* AutoGLMUI._last_heartbeat: "none" or "set"
  recent_responses,    \* AutoGLMUI.recent_responses
  response_queues,     \* AutoGLMUI.response_queues: task_id -> the queue of request r
  queue,               \* queue[r]: the asyncio.Queue request r's stream created
  rpc,                 \* rpc[r]: where request r stands
  rtask,               \* rtask[r]: the task_id of request r's stream
  arrived,             \* number of inbound messages delivered so far
  stopRequested,       \* disconnect() has been called (history variable)
  reconnectCalls,      \* connect() calls made by _attempt_reconnect since the
                       \* last on_open (history variable, which connect() and
                       \* on_open leave to the specification that counts)
  timer,               \* timer[r]: whole seconds since start_time (total) and
                       \* since last_response_time (idle) in request r's stream
  fanout,              \* _handle_response's for loop over response_queues.items()
                       \* while its receive thread is inside it (pc "fanout")
  conversation_id,     \* WebSocketClient._conversation_id: 0 until a session
                       \* message sets it
  created,             \* the last message create_message returned, and what
                       \* is kept of the ones before (history variable)
  report,              \* get_status taken read by read: whether it stands
                       \* between its two reads, and what it has read
  ev                   \* the last operation: what it saw and what it returned

connVars == <<ws_client, status, reconnect_attempts, stop_event, ws, sock, pc,
              startAttempt, cancelled, shutdowns, stopRequested, reconnectCalls>>
hubVars == <<recent_responses, response_queues, queue, arrived, fanout,
             conversation_id>>
reqVars == <<rpc, rtask, timer, created, report>>
vars == <<connVars, hubVars, reqVars, last_heartbeat, ev>>

\* The transports a run has room for, and the threads: the startup retry (0)
\* and the receive thread of each transport.
Transports == DOMAIN sock
Threads == DOMAIN pc

Min(a, b) == IF a < b THEN a ELSE b
Bool(b) == IF b THEN "true" ELSE "false"

\* ------------------------------------------------------------ the client

\* is_connected without its status test
is_connected_socket_only ==
  /\ ws # 0
  /\ sock[ws]

\* WebSocketClient.is_connected
is_connected ==
  /\ status = CONNECTED
  /\ ws # 0
  /\ sock[ws]

NumTransports == Cardinality({t \in Transports : pc[t] # "none"})

\* The record of the operation being taken, from the state it is taken in.
NoMsg == [shape |-> "none", msg_type |-> "absent", body |-> 0]
EvMsg(op, th, ret, sent, n, m) ==
  [op |-> op, th |-> th, pre |-> status, preAtt |-> reconnect_attempts,
   preConn |-> is_connected, preWs |-> ws, preStop |-> stop_event,
   preN |-> NumTransports, ret |-> ret, sent |-> sent, n |-> n, msg |-> m]
Ev(op, th, ret, sent, n) == EvMsg(op, th, ret, sent, n, NoMsg)

\* A startup retry that goes on retrying after a connect() that succeeded
ConnectReturnsRetriesOn(th, r) ==
  IF th = 0
  THEN /\ pc' = [pc EXCEPT ![0] =
                   IF cancelled THEN "done"
                   ELSE IF startAttempt < max_reconnect_attempts - 1 THEN "sleep"
                   ELSE "done"]
       /\ last_heartbeat' = IF ~cancelled /\ r = "true" THEN "set" ELSE last_heartbeat
  ELSE /\ pc' = [pc EXCEPT ![th] = "done"]
       /\ last_heartbeat' = last_heartbeat

\* What the caller of connect() does with its result r ("true" / "false").
\* Thread 0 is _connect_with_retry: stop on success, otherwise sleep before the
\* next attempt unless this was the last one; a cancelled startup task does
\* nothing more.  A receive thread returns from _attempt_reconnect and ends.
ConnectReturns(th, r) ==
  IF th = 0
  THEN /\ pc' = [pc EXCEPT ![0] =
                   IF cancelled \/ r = "true" THEN "done"
                   ELSE IF startAttempt < max_reconnect_attempts - 1 THEN "sleep"
                   ELSE "done"]
       /\ last_heartbeat' = IF ~cancelled /\ r = "true" THEN "set" ELSE last_heartbeat
  ELSE /\ pc' = [pc EXCEPT ![th] = "done"]
       /\ last_heartbeat' = last_heartbeat

\* AutoGLMUI.initialize: without a token no client is created.
Initialize(token) ==
  /\ pc[0] = "uninit"
  /\ ws_client' = token
  /\ pc' = [pc EXCEPT ![0] = IF token THEN "call" ELSE "done"]
  /\ ev' = Ev("initialize", 0, "none", FALSE, 0)
  /\ UNCHANGED <<status, reconnect_attempts, stop_event, ws, sock, startAttempt,
                 cancelled, shutdowns, stopRequested, reconnectCalls, hubVars, reqVars,
                 last_heartbeat>>

\* _connect_with_retry: the backoff sleep between two attempts is over.
StartupWake ==
  /\ pc[0] = "sleep"
  /\ startAttempt' = startAttempt + 1
  /\ pc' = [pc EXCEPT ![0] = "call"]
  /\ ev' = Ev("startup_retry", 0, "none", FALSE, Min(2 ^ startAttempt, 30))
  /\ UNCHANGED <<ws_client, status, reconnect_attempts, stop_event, ws, sock,
                 cancelled, shutdowns, stopRequested, reconnectCalls, hubVars, reqVars,
                 last_heartbeat>>

\* connect() whose locked section turns away a caller only when CONNECTED
ConnectEnterConnectedOnly(th) ==
  /\ \/ th = 0 /\ pc[0] = "call"
     \/ th \in Transports /\ pc[th] = "backoff"
  /\ IF status = CONNECTED
     THEN /\ ConnectReturns(th, IF is_connected THEN "true" ELSE "false")
          /\ ev' = Ev("connect_busy", th, IF is_connected THEN "true" ELSE "false", FALSE, 0)
          /\ UNCHANGED <<status, stop_event>>
     ELSE /\ status' = CONNECTING
          /\ stop_event' = FALSE
          /\ pc' = [pc EXCEPT ![th] = "creating"]
          /\ ev' = Ev("connect_enter", th, "none", FALSE, 0)
          /\ UNCHANGED last_heartbeat
  /\ UNCHANGED <<ws_client, reconnect_attempts, ws, sock, startAttempt, cancelled,
                 shutdowns, stopRequested, hubVars, reqVars>>

\* connect(), the locked section: thread th calls connect() (thread 0 from the
\* startup retry, a receive thread when its backoff sleep is over).
ConnectEnter(th) ==
  /\ \/ th = 0 /\ pc[0] = "call"
     \/ th \in Transports /\ pc[th] = "backoff"
  /\ IF status \in {CONNECTING, CONNECTED}
     THEN /\ ConnectReturns(th, IF is_connected THEN "true" ELSE "false")
          /\ ev' = Ev("connect_busy", th, IF is_connected THEN "true" ELSE "false", FALSE, 0)
          /\ UNCHANGED <<status, stop_event>>
     ELSE /\ status' = CONNECTING
          /\ stop_event' = FALSE
          /\ pc' = [pc EXCEPT ![th] = "creating"]
          /\ ev' = Ev("connect_enter", th, "none", FALSE, 0)
          /\ UNCHANGED last_heartbeat
  /\ UNCHANGED <<ws_client, reconnect_attempts, ws, sock, startAttempt, cancelled,
                 shutdowns, stopRequested, hubVars, reqVars>>

\* connect(), the try block: the transport is created and its receive thread
\* started; the new transport is number NumTransports + 1.
ConnectCreate(th) ==
  /\ pc[th] = "creating"
  /\ NumTransports + 1 \in Transports
  /\ LET t == NumTransports + 1 IN
       /\ ws' = t
       /\ pc' = [pc EXCEPT ![th] = "waiting", ![t] = "dialing"]
  /\ ev' = Ev("connect_create", th, "none", FALSE, 0)
  /\ UNCHANGED <<ws_client, status, reconnect_attempts, stop_event, sock,
                 startAttempt, cancelled, shutdowns, stopRequested, reconnectCalls, hubVars,
                 reqVars, last_heartbeat>>

\* connect() whose except block returns False with the status left CONNECTING
ConnectRaiseKeepsConnecting(th) ==
  /\ pc[th] = "creating"
  /\ ConnectReturns(th, "false")
  /\ ev' = Ev("connect_raise", th, "false", FALSE, 0)
  /\ UNCHANGED <<ws_client, status, reconnect_attempts, stop_event, ws, sock,
                 startAttempt, cancelled, shutdowns, stopRequested, reconnectCalls,
                 hubVars, reqVars>>

\* connect(), the except block: creating or starting the transport raised.
ConnectRaise(th) ==
  /\ pc[th] = "creating"
  /\ status' = ERROR
  /\ ConnectReturns(th, "false")
  /\ ev' = Ev("connect_raise", th, "false", FALSE, 0)
  /\ UNCHANGED <<ws_client, reconnect_attempts, stop_event, ws, sock, startAttempt,
                 cancelled, shutdowns, stopRequested, reconnectCalls, hubVars, reqVars>>

\* _wait_for_connection: a poll sees is_connected and returns True, or the last
\* poll of the timeout does not and the loop returns False.
WaitForConnection(th) ==
  /\ pc[th] = "waiting"
  /\ LET r == IF is_connected THEN "true" ELSE "false" IN
       /\ ConnectReturns(th, r)
       /\ ev' = Ev("connect_wait", th, r, FALSE, 0)
  /\ UNCHANGED <<ws_client, status, reconnect_attempts, stop_event, ws, sock,
                 startAttempt, cancelled, shutdowns, stopRequested, reconnectCalls, hubVars,
                 reqVars>>

\* A handshake that marks the client connected before on_open is delivered
SockUpSetsConnected(t) ==
  /\ pc[t] = "dialing"
  /\ sock' = [sock EXCEPT ![t] = TRUE]
  /\ status' = CONNECTED
  /\ pc' = [pc EXCEPT ![t] = "opening"]
  /\ ev' = Ev("sock_up", t, "none", FALSE, 0)
  /\ UNCHANGED <<ws_client, reconnect_attempts, stop_event, ws,
                 startAttempt, cancelled, shutdowns, stopRequested, reconnectCalls, hubVars,
                 reqVars, last_heartbeat>>

\* run_forever: the handshake of transport t succeeded; the socket is up and
\* the library is about to deliver on_open.
SockUp(t) ==
  /\ pc[t] = "dialing"
  /\ sock' = [sock EXCEPT ![t] = TRUE]
  /\ pc' = [pc EXCEPT ![t] = "opening"]
  /\ ev' = Ev("sock_up", t, "none", FALSE, 0)
  /\ UNCHANGED <<ws_client, status, reconnect_attempts, stop_event, ws,
                 startAttempt, cancelled, shutdowns, stopRequested, reconnectCalls, hubVars,
                 reqVars, last_heartbeat>>

\* The socket of transport t drops while its thread is in the receive loop; the
\* library will deliver on_error and/or on_close next.
SockDown(t) ==
  /\ pc[t] = "recv"
  /\ sock[t]
  /\ sock' = [sock EXCEPT ![t] = FALSE]
  /\ ev' = Ev("sock_down", t, "none", FALSE, 0)
  /\ UNCHANGED <<ws_client, status, reconnect_attempts, stop_event, ws, pc,
                 startAttempt, cancelled, shutdowns, stopRequested, reconnectCalls, hubVars,
                 reqVars, last_heartbeat>>

\* on_open that leaves the reconnect counter alone
OnOpenNoReset(t) ==
  /\ pc[t] = "opening"
  /\ status' = CONNECTED
  /\ pc' = [pc EXCEPT ![t] = "recv"]
  /\ ev' = Ev("on_open", t, "none", FALSE, 0)
  /\ UNCHANGED <<ws_client, reconnect_attempts, stop_event, ws, sock, startAttempt,
                 cancelled, shutdowns, stopRequested, hubVars, reqVars,
                 last_heartbeat>>

\* WebSocketClient.on_open
OnOpen(t) ==
  /\ pc[t] = "opening"
  /\ status' = CONNECTED
  /\ reconnect_attempts' = 0
  /\ pc' = [pc EXCEPT ![t] = "recv"]
  /\ ev' = Ev("on_open", t, "none", FALSE, 0)
  /\ UNCHANGED <<ws_client, stop_event, ws, sock, startAttempt, cancelled,
                 shutdowns, stopRequested, hubVars, reqVars, last_heartbeat>>

\* AutoGLMUI._handle_error, the client's error callback
HandleError == "none"

\* on_error that counts the error as a reconnection attempt
OnErrorCounts(t) ==
  /\ pc[t] \in {"dialing", "recv"}
  /\ status' = ERROR
  /\ reconnect_attempts' = reconnect_attempts + 1
  /\ last_heartbeat' = HandleError
  /\ pc' = [pc EXCEPT ![t] = "closing"]
  /\ ev' = Ev("on_error", t, "none", FALSE, 0)
  /\ UNCHANGED <<ws_client, stop_event, ws, sock, startAttempt, cancelled,
                 shutdowns, stopRequested, reconnectCalls, hubVars, reqVars>>

\* WebSocketClient.on_error: a failed dial, or a failure in the receive loop.
OnError(t) ==
  /\ pc[t] \in {"dialing", "recv"}
  /\ status' = ERROR
  /\ last_heartbeat' = HandleError
  /\ pc' = [pc EXCEPT ![t] = "closing"]
  /\ ev' = Ev("on_error", t, "none", FALSE, 0)
  /\ UNCHANGED <<ws_client, reconnect_attempts, stop_event, ws, sock, startAttempt,
                 cancelled, shutdowns, stopRequested, reconnectCalls, hubVars, reqVars>>

\* _attempt_reconnect's delay before it calls connect()
ReconnectDelay(attempt) == Min(2 ^ attempt, 30)

\* on_close that reconnects without looking at the stop flag
OnCloseIgnoresStop(t) ==
  /\ pc[t] \in {"recv", "closing"}
  /\ status' = DISCONNECTED
  /\ sock' = [sock EXCEPT ![t] = FALSE]
  /\ IF reconnect_attempts < max_reconnect_attempts
     THEN /\ reconnect_attempts' = reconnect_attempts + 1
          /\ pc' = [pc EXCEPT ![t] = "backoff"]
          /\ ev' = Ev("on_close", t, "backoff", FALSE,
                      ReconnectDelay(reconnect_attempts + 1))
     ELSE /\ reconnect_attempts' = reconnect_attempts
          /\ pc' = [pc EXCEPT ![t] = "done"]
          /\ ev' = Ev("on_close", t, "none", FALSE, 0)
  /\ UNCHANGED <<ws_client, stop_event, ws, startAttempt, cancelled, shutdowns,
                 stopRequested, reconnectCalls, hubVars, reqVars, last_heartbeat>>

\* WebSocketClient.on_close with the head of _attempt_reconnect: the status is
\* set, then, unless stopped or out of attempts, the counter is incremented and
\* the thread goes to sleep for the backoff delay.
OnClose(t) ==
  /\ pc[t] \in {"recv", "closing"}
  /\ status' = DISCONNECTED
  /\ sock' = [sock EXCEPT ![t] = FALSE]
  /\ IF ~stop_event /\ reconnect_attempts < max_reconnect_attempts
     THEN LET attempt == reconnect_attempts + 1 IN
          /\ reconnect_attempts' = attempt
          /\ IF attempt > max_reconnect_attempts
             THEN /\ pc' = [pc EXCEPT ![t] = "done"]
                  /\ ev' = Ev("on_close", t, "exhausted", FALSE, 0)
             ELSE /\ pc' = [pc EXCEPT ![t] = "backoff"]
                  /\ ev' = Ev("on_close", t, "backoff", FALSE, ReconnectDelay(attempt))
     ELSE /\ reconnect_attempts' = reconnect_attempts
          /\ pc' = [pc EXCEPT ![t] = "done"]
          /\ ev' = Ev("on_close", t, "none", FALSE, 0)
  /\ UNCHANGED <<ws_client, stop_event, ws, startAttempt, cancelled, shutdowns,
                 stopRequested, reconnectCalls, hubVars, reqVars, last_heartbeat>>

\* disconnect that sets the status inside its try block, after ws.close()
DisconnectStatusInTry(p, raises) ==
  /\ stop_event' = TRUE
  /\ IF ws # 0 /\ ~raises /\ p[ws] \in {"dialing", "opening", "recv", "closing"}
     THEN /\ pc' = [p EXCEPT ![ws] = "closing"]
          /\ sock' = [sock EXCEPT ![ws] = FALSE]
     ELSE /\ pc' = p
          /\ sock' = sock
  /\ status' = IF raises THEN status ELSE DISCONNECTED
  /\ stopRequested' = TRUE

\* WebSocketClient.disconnect, applied to the thread positions p: the stop flag
\* is set, the current transport (if any) is asked to close, which may raise,
\* and the status is set.
Disconnect(p, raises) ==
  /\ stop_event' = TRUE
  /\ IF ws # 0 /\ ~raises /\ p[ws] \in {"dialing", "opening", "recv", "closing"}
     THEN /\ pc' = [p EXCEPT ![ws] = "closing"]
          /\ sock' = [sock EXCEPT ![ws] = FALSE]
     ELSE /\ pc' = p
          /\ sock' = sock
  /\ status' = DISCONNECTED
  /\ stopRequested' = TRUE

\* AutoGLMUI.shutdown: cancel the startup task if it has not finished (a connect()
\* already running on the executor thread runs on), then disconnect.
Shutdown(raises) ==
  /\ pc[0] # "uninit"
  /\ shutdowns < MaxShutdowns
  /\ raises => (ws_client /\ ws # 0)
  /\ shutdowns' = shutdowns + 1
  /\ cancelled' = (cancelled \/ pc[0] # "done")
  /\ LET p == [pc EXCEPT ![0] = IF pc[0] = "sleep" THEN "done" ELSE pc[0]] IN
       IF ws_client
       THEN Disconnect(p, raises)
       ELSE /\ pc' = p
            /\ UNCHANGED <<stop_event, sock, status, stopRequested>>
  /\ ev' = Ev("shutdown", 0, IF raises THEN "raised" ELSE "none", FALSE, 0)
  /\ UNCHANGED <<ws_client, reconnect_attempts, ws, startAttempt, reconnectCalls,
                 hubVars, reqVars, last_heartbeat>>

\* ------------------------------------------------------- inbound messages

\* An inbound text message: valid JSON holding an object (with or without a
\* msg_type key), valid JSON holding something else, or no JSON at all.  body
\* tells the messages apart.
MsgTypes == {"server_heartbeat", "agent_response", "task_result", "absent"}
Inbound(n) ==
  [shape : {"object"}, msg_type : MsgTypes, body : {n}]
    \cup [shape : {"nonobject", "invalid"}, msg_type : {"absent"}, body : {n}]

\* json.loads(message): err for a JSONDecodeError, else the parsed value, which
\* is a dict (with its msg_type key or without) or some other JSON value
JsonLoads(m) ==
  [err |-> m.shape = "invalid", dict |-> m.shape = "object",
   msg_type |-> IF m.shape = "object" THEN m.msg_type ELSE "absent",
   body |-> IF m.shape = "invalid" THEN 0 ELSE m.body]

\* parsed_data None
Null == [err |-> TRUE, dict |-> FALSE, msg_type |-> "absent", body |-> 0]

\* msg_data.get("msg_type", "unknown") on a parsed object
GetMsgType(d) == IF d.msg_type = "absent" THEN "unknown" ELSE d.msg_type

\* _handle_response that stores a heartbeat like any other message
ResponseDataHeartbeatStored(m) ==
  LET d == JsonLoads(m) IN
  IF d.err
  THEN [out |-> "store", message |-> m, id |-> Len(recent_responses),
        msg_type |-> "raw", parsed_data |-> Null]
  ELSE IF ~d.dict
  THEN [out |-> "AttributeError", message |-> m, id |-> 0, msg_type |-> "unknown",
        parsed_data |-> d]
  ELSE [out |-> "store", message |-> m, id |-> Len(recent_responses),
        msg_type |-> GetMsgType(d), parsed_data |-> d]

\* _handle_response, lines 100-151: the outcome for message m: "store" with the
\* record built, "return" for a heartbeat, "AttributeError" when the JSON value
\* has no get() (caught by the outer except, nothing stored).
ResponseData(m) ==
  LET d == JsonLoads(m) IN
  IF d.err
  THEN [out |-> "store", message |-> m, id |-> Len(recent_responses),
        msg_type |-> "raw", parsed_data |-> Null]
  ELSE IF ~d.dict
  THEN [out |-> "AttributeError", message |-> m, id |-> 0, msg_type |-> "unknown",
        parsed_data |-> d]
  ELSE [out |-> IF GetMsgType(d) = "server_heartbeat" THEN "return" ELSE "store",
        message |-> m, id |-> Len(recent_responses), msg_type |-> GetMsgType(d),
        parsed_data |-> d]

\* The dict response_data of an outcome that is stored
Record(o) ==
  [message |-> o.message, id |-> o.id, msg_type |-> o.msg_type,
   parsed_data |-> o.parsed_data]

\* No message created yet, by a caller whose instruction is the empty text
NoneCreated == [n |-> 0, msg_ids |-> {}, instruction |-> <<>>, text |-> <<>>]

\* No record, and the for loop of lines 160-168 when no thread is inside it
NoRecord == [message |-> NoMsg, id |-> 0, msg_type |-> "none", parsed_data |-> Null]
NoFanout ==
  [rec |-> NoRecord, used |-> 0, pos |-> 0, start |-> {}, got |-> {}, ret |-> "none"]

\* A history that refuses the newest record once it is full
StoreDropNewest(h, rec) ==
  IF Len(h) >= max_responses THEN h ELSE Append(h, rec)

\* _handle_response, lines 153-157: append, then drop the oldest over the limit
Store(h, rec) ==
  LET a == Append(h, rec) IN
  IF Len(a) > max_responses THEN Tail(a) ELSE a

\* The queues the registry holds
Registered == {response_queues[k] : k \in DOMAIN response_queues}

\* json.dumps({"type": "response", "data": response_data})
ResponseItem(rec) == [type |-> "response", data |-> rec]

\* A fan-out that ends after the first queue
FanOutFirstOnly(q, rec) ==
  [r \in Requests |->
     IF \E k \in DOMAIN response_queues :
          response_queues[k] = r /\ \A j \in DOMAIN response_queues : k <= j
     THEN Append(q[r], ResponseItem(rec))
     ELSE q[r]]

\* _handle_response, lines 159-168: put_nowait into every registered queue (the
\* queues are asyncio.Queue() without maxsize, so put_nowait never finds one full)
FanOut(q, rec) ==
  [r \in Requests |->
     IF r \in Registered THEN Append(q[r], ResponseItem(rec)) ELSE q[r]]

\* _handle_response, lines 125-130: a session message that carries a
\* conversation id (its body) gives it to the client; d is the parsed message
SessionUpdate(d) ==
  IF ~d.err /\ d.dict /\ GetMsgType(d) = "server_session" /\ ws_client /\ d.body # 0
  THEN d.body
  ELSE conversation_id

\* AutoGLMUI._handle_response
HandleResponse(m) ==
  LET rec == ResponseData(m) IN
  /\ last_heartbeat' = "set"
  /\ conversation_id' = SessionUpdate(JsonLoads(m))
  /\ IF rec.out # "store"
     THEN UNCHANGED <<recent_responses, queue>>
     ELSE /\ recent_responses' = Store(recent_responses, Record(rec))
          /\ queue' = FanOut(queue, Record(rec))

\* WebSocketClient.on_message: a JSON value without get() raises inside the outer
\* try, which reports it to the error callback and skips the response callback.
OnMessage(t, m) ==
  /\ pc[t] = "recv"
  /\ sock[t]
  /\ arrived' = arrived + 1
  /\ IF ~JsonLoads(m).err /\ ~JsonLoads(m).dict
     THEN /\ last_heartbeat' = HandleError
          /\ ev' = EvMsg("on_message", t, "error_callback", FALSE, 0, m)
          /\ UNCHANGED <<recent_responses, queue, conversation_id>>
     ELSE /\ HandleResponse(m)
          /\ ev' = EvMsg("on_message", t, ResponseData(m).out, FALSE,
                         Len(recent_responses), m)
  /\ UNCHANGED <<connVars, reqVars, response_queues, fanout>>

\* _handle_response up to the first turn of its for loop (lines 95-168), for a
\* message that is stored: the record is appended to the history, the iterator
\* over response_queues.items() is created, which notes the size of the dict,
\* and the first entry's queue is given the record.  The receive thread is then
\* inside the loop, where the event loop's thread can run between two of its
\* steps; with no entry the loop is over at once.
IngestBegin(t, m) ==
  /\ pc[t] = "recv"
  /\ sock[t]
  /\ ResponseData(m).out = "store"
  /\ arrived' = arrived + 1
  /\ last_heartbeat' = "set"
  /\ conversation_id' = SessionUpdate(JsonLoads(m))
  /\ recent_responses' = Store(recent_responses, Record(ResponseData(m)))
  /\ LET it == [rec |-> Record(ResponseData(m)),
                used |-> Cardinality(DOMAIN response_queues), pos |-> 0,
                start |-> Registered, got |-> {}, ret |-> "none"]
     IN IF DOMAIN response_queues = {}
        THEN /\ fanout' = [it EXCEPT !.ret = "ok"]
             /\ UNCHANGED <<pc, queue>>
        ELSE LET k == CHOOSE j \in DOMAIN response_queues :
                        \A i \in DOMAIN response_queues : j <= i
                 r == response_queues[k]
             IN /\ queue' = [queue EXCEPT ![r] = Append(@, ResponseItem(it.rec))]
                /\ fanout' = [it EXCEPT !.pos = k, !.got = {r}]
                /\ pc' = [pc EXCEPT ![t] = "fanout"]
  /\ ev' = EvMsg("ingest_begin", t, "store", FALSE, Len(recent_responses), m)
  /\ UNCHANGED <<ws_client, status, reconnect_attempts, stop_event, ws, sock,
                 startAttempt, cancelled, shutdowns, stopRequested, reconnectCalls,
                 response_queues, reqVars>>

\* _handle_response, a later step of the for loop (lines 160-168): the dict
\* iterator raises RuntimeError when the size of the dict is not the one it noted (the
\* outer except of line 176 ends the ingest there), ends the loop after the last
\* entry, and otherwise yields the next entry in insertion order (the order of
\* the task ids), whose queue is given the record.
IngestStep(t) ==
  /\ pc[t] = "fanout"
  /\ LET rest == {k \in DOMAIN response_queues : k > fanout.pos} IN
     IF Cardinality(DOMAIN response_queues) # fanout.used
     THEN /\ fanout' = [fanout EXCEPT !.ret = "RuntimeError"]
          /\ pc' = [pc EXCEPT ![t] = "recv"]
          /\ ev' = Ev("ingest_end", t, "RuntimeError", FALSE, 0)
          /\ UNCHANGED queue
     ELSE IF rest = {}
     THEN /\ fanout' = [fanout EXCEPT !.ret = "ok"]
          /\ pc' = [pc EXCEPT ![t] = "recv"]
          /\ ev' = Ev("ingest_end", t, "ok", FALSE, 0)
          /\ UNCHANGED queue
     ELSE LET k == CHOOSE j \in rest : \A i \in rest : j <= i
              r == response_queues[k]
          IN /\ queue' = [queue EXCEPT ![r] = Append(@, ResponseItem(fanout.rec))]
             /\ fanout' = [fanout EXCEPT !.pos = k, !.got = @ \cup {r}]
             /\ ev' = Ev("ingest_put", t, "none", FALSE, k)
             /\ UNCHANGED pc
  /\ UNCHANGED <<ws_client, status, reconnect_attempts, stop_event, ws, sock,
                 startAttempt, cancelled, shutdowns, stopRequested, reconnectCalls,
                 recent_responses, response_queues, arrived, conversation_id,
                 reqVars, last_heartbeat>>

\* --------------------------------------------------------------- requests

\* Task ids: str(int(time.time() * 1000)), the millisecond a stream is opened
\* in; a later stream never gets an earlier millisecond.
TaskIds == 1..MaxRequests
LaterThanAll(tid) == \A q \in Requests : rtask[q] <= tid

\* Requests are numbered in the order they arrive.
Arrives(r) ==
  /\ rpc[r] = "idle"
  /\ \A q \in Requests : q < r => rpc[q] # "idle"

\* WebSocketClient.send_message: "false" without a send when not connected,
\* "false" when ws.send raises, else "true"
SendMessage(raises) ==
  IF ~is_connected THEN "false"
  ELSE IF raises THEN "false"
  ELSE "true"

\* get_status that takes a status query for a sign of life
GetStatusTouchesHeartbeat ==
  /\ ev' = Ev("get_status", 0, IF ws_client THEN status ELSE DISCONNECTED, FALSE,
              Len(recent_responses))
  /\ last_heartbeat' = "set"
  /\ UNCHANGED <<connVars, hubVars, reqVars>>

\* AutoGLMUI.get_status: the connected flag (the client exists and
\* is_connected), the status value ("disconnected" when there is no client), the
\* history length and the last heartbeat
GetStatus ==
  /\ ev' = Ev("get_status", 0, IF ws_client THEN status ELSE DISCONNECTED, FALSE,
              Len(recent_responses))
  /\ UNCHANGED <<connVars, hubVars, reqVars, last_heartbeat>>

\* get_status, line 221: the connected flag is read (is_connected reads the
\* status, the transport and its socket with no lock held)
NoReport == [at |-> "idle", connected |-> FALSE, status |-> DISCONNECTED]
GetStatusConnected ==
  /\ report.at = "idle"
  /\ report' = [at |-> "read", connected |-> (ws_client /\ is_connected),
                status |-> report.status]
  /\ ev' = Ev("status_read", 0, Bool(ws_client /\ is_connected), FALSE, 0)
  /\ UNCHANGED <<connVars, hubVars, rpc, rtask, timer, created, last_heartbeat>>

\* get_status, lines 222-229: the status is read, after whatever the other
\* threads did since line 221, and the report is returned
GetStatusReport ==
  /\ report.at = "read"
  /\ report' = [at |-> "idle", connected |-> report.connected,
                status |-> IF ws_client THEN status ELSE DISCONNECTED]
  /\ ev' = Ev("status_report", 0, IF ws_client THEN status ELSE DISCONNECTED, FALSE,
              Len(recent_responses))
  /\ UNCHANGED <<connVars, hubVars, rpc, rtask, timer, created, last_heartbeat>>

\* AutoGLMUI.send_task up to its sleep: 503 unless connected
SendTaskCheck(r) ==
  /\ Arrives(r)
  /\ IF ~ws_client \/ ~is_connected
     THEN /\ rpc' = [rpc EXCEPT ![r] = "done"]
          /\ ev' = Ev("send_task", r, "503", FALSE, 0)
     ELSE /\ rpc' = [rpc EXCEPT ![r] = "task_sleep"]
          /\ ev' = Ev("send_task", r, "none", FALSE, 0)
  /\ UNCHANGED <<connVars, hubVars, rtask, timer, created, report, last_heartbeat>>

\* AutoGLMUI.send_task after its sleep: create_message, send_message, and the
\* answer (the task id is the history length) or the 500 error
SendTaskSend(r, raises) ==
  /\ rpc[r] = "task_sleep"
  /\ raises => is_connected
  /\ rpc' = [rpc EXCEPT ![r] = "done"]
  /\ ev' = Ev("send_message", r, SendMessage(raises), is_connected,
              Len(recent_responses))
  /\ UNCHANGED <<connVars, hubVars, rtask, timer, created, report, last_heartbeat>>

\* send_task_stream that registers its queue before it tests the connection
SendTaskStreamRegisterFirst(r, tid) ==
  /\ Arrives(r)
  /\ LaterThanAll(tid)
  /\ response_queues' =
       [k \in DOMAIN response_queues \cup {tid} |->
          IF k = tid THEN r ELSE response_queues[k]]
  /\ rtask' = [rtask EXCEPT ![r] = tid]
  /\ IF ~ws_client \/ ~is_connected
     THEN /\ rpc' = [rpc EXCEPT ![r] = "done"]
          /\ ev' = Ev("send_task_stream", r, "503", FALSE, 0)
     ELSE /\ rpc' = [rpc EXCEPT ![r] = "stream_open"]
          /\ ev' = Ev("send_task_stream", r, "none", FALSE, tid)
  /\ UNCHANGED <<connVars, recent_responses, queue, arrived, fanout, conversation_id,
                 timer, created, report, last_heartbeat>>

\* send_task_stream up to the StreamingResponse: 503 unless connected, else a
\* fresh queue is registered under the task id tid
SendTaskStream(r, tid) ==
  /\ Arrives(r)
  /\ LaterThanAll(tid)
  /\ IF ~ws_client \/ ~is_connected
     THEN /\ rpc' = [rpc EXCEPT ![r] = "done"]
          /\ ev' = Ev("send_task_stream", r, "503", FALSE, 0)
          /\ UNCHANGED <<response_queues, rtask>>
     ELSE /\ response_queues' =
               [k \in DOMAIN response_queues \cup {tid} |->
                  IF k = tid THEN r ELSE response_queues[k]]
          /\ rtask' = [rtask EXCEPT ![r] = tid]
          /\ rpc' = [rpc EXCEPT ![r] = "stream_open"]
          /\ ev' = Ev("send_task_stream", r, "none", FALSE, tid)
  /\ UNCHANGED <<connVars, recent_responses, queue, arrived, fanout, conversation_id,
                 timer, created, report, last_heartbeat>>

\* generate(), the finally block: the queue of the task id is removed
Unregister(qs, tid) == [k \in DOMAIN qs \ {tid} |-> qs[k]]

\* generate(), lines 381-383: the overall timeout, and the two clocks, which
\* start together; line 424: the idle limit.  Time is counted in whole seconds.
StreamTimeout == 300
IdleLimit == 30
NoTimer == [total |-> 0, idle |-> 0]

\* generate() up to its first yield: the task is sent; a failed send yields the
\* error record and ends the stream
GenStart(r, raises) ==
  /\ rpc[r] = "stream_open"
  /\ raises => is_connected
  /\ IF SendMessage(raises) = "true"
     THEN /\ rpc' = [rpc EXCEPT ![r] = "streaming"]
          /\ timer' = [timer EXCEPT ![r] = NoTimer]
          /\ UNCHANGED response_queues
     ELSE /\ rpc' = [rpc EXCEPT ![r] = "done"]
          /\ response_queues' = Unregister(response_queues, rtask[r])
          /\ UNCHANGED timer
  /\ ev' = Ev("send_message", r, SendMessage(raises), is_connected, 0)
  /\ UNCHANGED <<connVars, recent_responses, queue, arrived, fanout, conversation_id,
                 rtask, created, report, last_heartbeat>>

\* The message kinds that end a stream
Terminal == {"task_result", "task_complete", "agent_finish"}

\* generate(), one turn of the loop in which queue.get() returns a record within
\* its second (dt: whether the wait crossed a whole second); the record is
\* yielded, and a terminal kind ends the stream with the complete record
GenGet(r, dt) ==
  /\ rpc[r] = "streaming"
  /\ timer[r].total < StreamTimeout
  /\ queue[r] # <<>>
  /\ queue' = [queue EXCEPT ![r] = Tail(@)]
  /\ timer' = [timer EXCEPT ![r] = [total |-> @.total + dt, idle |-> 0]]
  /\ LET data == Head(queue[r]) IN
       IF data.type = "response" /\ data.data.msg_type \in Terminal
       THEN /\ rpc' = [rpc EXCEPT ![r] = "done"]
            /\ response_queues' = Unregister(response_queues, rtask[r])
            /\ ev' = Ev("stream_get", r, "complete", FALSE, data.data.id)
       ELSE /\ rpc' = [rpc EXCEPT ![r] = "streaming"]
            /\ response_queues' = response_queues
            /\ ev' = Ev("stream_get", r, "response", FALSE, data.data.id)
  /\ UNCHANGED <<connVars, recent_responses, arrived, fanout, conversation_id, rtask,
                 created, report, last_heartbeat>>

\* A timeout turn whose idle end leaves the queue in the registry
GenTimeoutKeepsQueue(r) ==
  /\ rpc[r] = "streaming"
  /\ timer[r].total < StreamTimeout
  /\ queue[r] = <<>>
  /\ LET total == timer[r].total + 1
         idle == timer[r].idle + 1
         ends == total >= StreamTimeout \/ idle > IdleLimit
     IN /\ timer' = [timer EXCEPT ![r] = [total |-> total, idle |-> idle]]
        /\ rpc' = [rpc EXCEPT ![r] = IF ends THEN "done" ELSE "streaming"]
        /\ response_queues' =
             IF total >= StreamTimeout
             THEN Unregister(response_queues, rtask[r]) ELSE response_queues
        /\ ev' = Ev("stream_timeout", r,
                    IF total >= StreamTimeout THEN "complete_timeout"
                    ELSE IF idle > IdleLimit THEN "complete_idle"
                    ELSE "continue",
                    FALSE, idle)
  /\ UNCHANGED <<connVars, recent_responses, queue, arrived, fanout, conversation_id,
                 rtask, created, report, last_heartbeat>>

\* generate(), one turn of the loop in which queue.get() times out after its
\* second (lines 413-431): the complete record of the overall timeout if that
\* has passed, else the complete record of the idle limit if more than 30
\* seconds went by since the last record, else the next turn.  Ending runs the
\* finally block.
GenTimeout(r) ==
  /\ rpc[r] = "streaming"
  /\ timer[r].total < StreamTimeout
  /\ queue[r] = <<>>
  /\ LET total == timer[r].total + 1
         idle == timer[r].idle + 1
         ends == total >= StreamTimeout \/ idle > IdleLimit
     IN /\ timer' = [timer EXCEPT ![r] = [total |-> total, idle |-> idle]]
        /\ rpc' = [rpc EXCEPT ![r] = IF ends THEN "done" ELSE "streaming"]
        /\ response_queues' =
             IF ends THEN Unregister(response_queues, rtask[r]) ELSE response_queues
        /\ ev' = Ev("stream_timeout", r,
                    IF total >= StreamTimeout THEN "complete_timeout"
                    ELSE IF idle > IdleLimit THEN "complete_idle"
                    ELSE "continue",
                    FALSE, idle)
  /\ UNCHANGED <<connVars, recent_responses, queue, arrived, fanout, conversation_id,
                 rtask, created, report, last_heartbeat>>

\* A loop exit that skips the finally block
GenLoopExitKeepsQueue(r) ==
  /\ rpc[r] = "streaming"
  /\ timer[r].total >= StreamTimeout
  /\ rpc' = [rpc EXCEPT ![r] = "done"]
  /\ ev' = Ev("stream_exit", r, "none", FALSE, timer[r].idle)
  /\ UNCHANGED <<connVars, hubVars, rtask, timer, created, report, last_heartbeat>>

\* generate(), the loop condition of line 386 found false: the loop is left
\* with no record yielded, and the finally block runs
GenLoopExit(r) ==
  /\ rpc[r] = "streaming"
  /\ timer[r].total >= StreamTimeout
  /\ rpc' = [rpc EXCEPT ![r] = "done"]
  /\ response_queues' = Unregister(response_queues, rtask[r])
  /\ ev' = Ev("stream_exit", r, "none", FALSE, timer[r].idle)
  /\ UNCHANGED <<connVars, recent_responses, queue, arrived, fanout, conversation_id,
                 rtask, timer, created, report, last_heartbeat>>

\* ---------------------------------------------------------- specification

NoEv ==
  [op |-> "init", th |-> 0, pre |-> DISCONNECTED, preAtt |-> 0, preConn |-> FALSE,
   preWs |-> 0, preStop |-> FALSE, preN |-> 0, ret |-> "none", sent |-> FALSE,
   n |-> 0, msg |-> NoMsg]

\* AutoGLMUI.__init__; the client's fields are those WebSocketClient.__init__
\* gives them once initialize() creates it.  The run has room for n transports;
\* created is left to the specification.
InitWith(n) ==
  /\ ws_client = FALSE
  /\ status = DISCONNECTED
  /\ reconnect_attempts = 0
  /\ stop_event = FALSE
  /\ ws = 0
  /\ sock = [t \in 1..n |-> FALSE]
  /\ pc = [th \in 0..n |-> IF th = 0 THEN "uninit" ELSE "none"]
  /\ startAttempt = 0
  /\ cancelled = FALSE
  /\ shutdowns = 0
  /\ last_heartbeat = "none"
  /\ recent_responses = <<>>
  /\ response_queues = <<>>
  /\ queue = [r \in Requests |-> <<>>]
  /\ rpc = [r \in Requests |-> "idle"]
  /\ rtask = [r \in Requests |-> 0]
  /\ arrived = 0
  /\ stopRequested = FALSE
  /\ reconnectCalls = 0
  /\ timer = [r \in Requests |-> NoTimer]
  /\ fanout = NoFanout
  /\ conversation_id = 0
  /\ report = NoReport
  /\ ev = NoEv

Init == InitWith(MaxTransports) /\ created = NoneCreated

\* send_message that marks the connection failed when the transport send raises
SendMessageCallMarksError(raises) ==
  /\ ws_client
  /\ raises => is_connected
  /\ status' = IF is_connected /\ raises THEN ERROR ELSE status
  /\ ev' = Ev("send_message", 0, SendMessage(raises), is_connected, 0)
  /\ UNCHANGED <<ws_client, reconnect_attempts, stop_event, ws, sock, pc,
                 startAttempt, cancelled, shutdowns, stopRequested, reconnectCalls,
                 hubVars, reqVars, last_heartbeat>>

\* send_message called on the client by any thread (auto.py, line 91)
SendMessageCall(raises) ==
  /\ ws_client
  /\ raises => is_connected
  /\ ev' = Ev("send_message", 0, SendMessage(raises), is_connected, 0)
  /\ UNCHANGED <<connVars, hubVars, reqVars, last_heartbeat>>

ClientStep ==
  \/ \E token \in BOOLEAN : Initialize(token)
  \/ StartupWake
  \/ \E th \in Threads : ConnectEnter(th) /\ UNCHANGED reconnectCalls
  \/ \E th \in Threads : ConnectCreate(th)
  \/ \E th \in Threads : ConnectRaise(th)
  \/ \E th \in Threads : WaitForConnection(th)
  \/ \E t \in Transports : SockUp(t)
  \/ \E t \in Transports : SockDown(t)
  \/ \E t \in Transports : OnOpen(t) /\ UNCHANGED reconnectCalls
  \/ \E t \in Transports : OnError(t)
  \/ \E t \in Transports : OnClose(t)
  \/ \E raises \in BOOLEAN : Shutdown(raises)

\* The connection: every thread of the client, send_message and get_status.
Next ==
  \/ ClientStep
  \/ \E raises \in BOOLEAN : SendMessageCall(raises)
  \/ GetStatus

Spec == Init /\ [][Next]_vars

\* The first connection made by the startup task
FirstConnect ==
  \/ Initialize(TRUE)
  \/ ConnectEnter(0) /\ UNCHANGED reconnectCalls
  \/ ConnectCreate(0)
  \/ WaitForConnection(0)
  \/ \E t \in Transports : SockUp(t)
  \/ \E t \in Transports : OnOpen(t) /\ UNCHANGED reconnectCalls

\* The requests against one connection that opens, fails, closes and is shut
\* down; no message arrives.  Reconnection threads stay in their backoff sleep.
ReqNext ==
  \/ FirstConnect
  \/ \E t \in Transports : SockDown(t)
  \/ \E t \in Transports : OnError(t)
  \/ \E t \in Transports : OnClose(t)
  \/ Shutdown(FALSE)
  \/ \E r \in Requests : SendTaskCheck(r)
  \/ \E r \in Requests : \E raises \in BOOLEAN : SendTaskSend(r, raises)
  \/ \E r \in Requests : \E tid \in TaskIds : SendTaskStream(r, tid)
  \/ \E r \in Requests : \E raises \in BOOLEAN : GenStart(r, raises)

SpecReq == Init /\ [][ReqNext]_vars

\* The hub: the messages of one connection, which stays up, and the streams
\* that consume them.
HubInbound(n) == {m \in Inbound(n) : m.shape = "object" => m.msg_type # "absent"}

HubNext ==
  \/ FirstConnect
  \/ \E t \in Transports : \E m \in HubInbound(arrived + 1) :
       arrived < MaxIngest /\ OnMessage(t, m)
  \/ \E r \in Requests : \E tid \in TaskIds : SendTaskStream(r, tid)
  \/ \E r \in Requests : GenStart(r, FALSE)
  \/ \E r \in Requests : GenGet(r, 0)

SpecHub == Init /\ [][HubNext]_vars

\* AutoGLMUI.get_recent_responses: the slice recent_responses[-limit:], which
\* starts at max(len - limit, 0) for a positive limit and at min(-limit, len)
\* otherwise
get_recent_responses(limit) ==
  LET n == Len(recent_responses)
      start == IF limit > 0
               THEN (IF n - limit > 0 THEN n - limit ELSE 0)
               ELSE Min(0 - limit, n)
  IN SubSeq(recent_responses, start + 1, n)

\* A long run of messages that are stored: any of the stored kinds for the
\* first MaxIngest messages, agent responses after them.
Stored(n) ==
  {m \in Inbound(n) :
     m.shape = "invalid" \/ (m.shape = "object" /\ m.msg_type # "server_heartbeat")}
LongInbound(n) ==
  IF n <= MaxIngest THEN Stored(n)
  ELSE {[shape |-> "object", msg_type |-> "agent_response", body |-> n]}

HistoryNext ==
  \/ FirstConnect
  \/ \E t \in Transports : \E m \in LongInbound(arrived + 1) :
       arrived < MaxLongIngest /\ OnMessage(t, m)

SpecHistory == Init /\ [][HistoryNext]_vars

\* ------------------------------------------------------------- the claims

\* C1: send_message returns false and makes no transport send whenever the
\* status it is called in is not CONNECTED.
C1_SendRefusedUnlessConnected ==
  (ev.op = "send_message" /\ ev.pre # CONNECTED) =>
    (ev.ret = "false" /\ ~ev.sent)

\* send_message was refused in status ERROR although the socket of the current
\* transport was still up.
C1_Witness ==
  /\ ev.op = "send_message"
  /\ ev.pre = ERROR
  /\ ev.ret = "false"
  /\ ws # 0
  /\ sock[ws]

\* C3: connect() called in status CONNECTING or CONNECTED returns at once with
\* the value of is_connected, leaves the status and the current transport as
\* they are, and creates no transport and no receive thread.
C3_ConnectBusyIsNoOp ==
  (ev.op \in {"connect_busy", "connect_enter"} /\ ev.pre \in {CONNECTING, CONNECTED}) =>
    /\ ev.op = "connect_busy"
    /\ ev.ret = Bool(ev.preConn)
    /\ status = ev.pre
    /\ ws = ev.preWs
    /\ NumTransports = ev.preN
    /\ pc[ev.th] \notin {"creating", "waiting"}

\* The startup retry called connect() again while the first dial was still in
\* progress, and got False back.
C3_Witness ==
  /\ ev.op = "connect_busy"
  /\ ev.pre = CONNECTING
  /\ ev.ret = "false"
  /\ ev.th = 0
  /\ NumTransports = 1

\* C8: once disconnect() has been called, no receive thread initiates a
\* reconnection: none passes connect()'s gate, which sets CONNECTING and dials.
C8_NoReconnectAfterDisconnect ==
  stopRequested => ~(ev.op = "connect_enter" /\ ev.th \in Transports)

C2_RejectedWhenNotConnected ==
  [][(ev'.op \in {"send_task", "send_task_stream"} /\ ~ev'.preConn) =>
       /\ ev'.ret = "503"
       /\ ~ev'.sent
       /\ response_queues' = response_queues
       /\ rpc'[ev'.th] = "done"]_vars

\* A stream was refused while another stream's queue was registered.
C2_Witness ==
  /\ ev.op = "send_task_stream"
  /\ ev.ret = "503"
  /\ ~ev.preConn
  /\ DOMAIN response_queues # {}

\* C4: a heartbeat message changes neither the history nor any consumer queue.
C4_HeartbeatSwallowed ==
  [][(ev'.op = "on_message" /\ ev'.msg.shape = "object"
        /\ ev'.msg.msg_type = "server_heartbeat") =>
       UNCHANGED <<recent_responses, response_queues, queue>>]_vars

\* Heartbeats arrived with a consumer registered; history and queue are empty.
C4_Witness ==
  /\ ev.op = "on_message"
  /\ ev.msg.msg_type = "server_heartbeat"
  /\ arrived >= 2
  /\ recent_responses = <<>>
  /\ \E r \in Registered : queue[r] = <<>>

\* The messages _handle_response is given and does not swallow
Ingested(m) ==
  m.shape = "invalid" \/ (m.shape = "object" /\ m.msg_type # "server_heartbeat")

Bodies(h) == [i \in 1..Len(h) |-> h[i].message.body]

\* C6: the history never holds more than 100 records, and recent(100) is the
\* last 100 messages ingested, in arrival order.
C6_HistoryIsLast100 ==
  /\ Len(recent_responses) <= max_responses
  /\ LET k == Min(arrived, max_responses) IN
       Bodies(get_recent_responses(max_responses)) =
         [i \in 1..k |-> arrived - k + i]

\* 103 messages were ingested: the history holds the last 100.
C6_Witness ==
  /\ arrived = 103
  /\ Len(recent_responses) = max_responses
  /\ recent_responses[1].message.body = 4

\* C7: the ids of the records in the history are strictly increasing in
\* arrival order.
C7_IdsStrictlyIncreasing ==
  \A i, j \in 1..Len(recent_responses) :
    i < j => recent_responses[i].id < recent_responses[j].id

\* C11: the delay a close-triggered reconnection waits is min(2^attempt, 30)
\* with attempt counted from 0, that is from the number of reconnections made
\* since the last on_open: 1 second for the first one.
C11_DelaysFromAttemptZero ==
  (ev.op = "on_close" /\ ev.ret = "backoff") => ev.n = Min(2 ^ ev.preAtt, 30)

\* The reconnection machine alone: the receive threads of up to MaxChain
\* transports and a startup retry that gets to MaxStartupRetries retries before
\* the run is over, with no shutdown.
ReconnectNext ==
  \/ Initialize(TRUE)
  \/ startAttempt < MaxStartupRetries /\ StartupWake
  \/ \E th \in Threads :
       /\ ConnectEnter(th)
       /\ reconnectCalls' = IF th = 0 THEN reconnectCalls ELSE reconnectCalls + 1
  \/ \E th \in Threads : ConnectCreate(th)
  \/ \E th \in Threads : ConnectRaise(th)
  \/ \E th \in Threads : WaitForConnection(th)
  \/ \E t \in Transports : SockUp(t)
  \/ \E t \in Transports : OnOpen(t) /\ reconnectCalls' = 0
  \/ \E t \in Transports : OnError(t)
  \/ \E t \in Transports : OnClose(t)

InitChain == InitWith(MaxChain) /\ created = NoneCreated

SpecReconnect == InitChain /\ [][ReconnectNext]_vars

\* C12: between two on_open callbacks the reconnector calls connect() at most
\* max_reconnect_attempts times, over all closures and all threads.
C12_ReconnectCallsBounded ==
  reconnectCalls <= max_reconnect_attempts

\* C13 as stated: on_error sets ERROR and calls the error callback, leaves the
\* reconnect counter alone and calls no connect(); on_error followed at once
\* by on_close of the same transport increments the counter exactly once.
C13_ErrorThenCloseCountsOnce ==
  [][/\ ev'.op = "on_error" =>
          /\ status' = ERROR
          /\ last_heartbeat' = HandleError
          /\ reconnect_attempts' = reconnect_attempts
          /\ pc'[ev'.th] = "closing"
          /\ ws' = ws
     /\ (ev.op = "on_error" /\ ev'.op = "on_close" /\ ev'.th = ev.th) =>
          reconnect_attempts' = ev.preAtt + 1]_vars

\* C13, amended: as above, but on_error followed at once by on_close of the
\* same transport increments the counter exactly once when no stop was
\* requested and the counter is below the maximum, and not at all otherwise.
C13_ErrorThenCloseCountsAtMostOnce ==
  [][/\ ev'.op = "on_error" =>
          /\ status' = ERROR
          /\ last_heartbeat' = HandleError
          /\ reconnect_attempts' = reconnect_attempts
          /\ pc'[ev'.th] = "closing"
          /\ ws' = ws
     /\ (ev.op = "on_error" /\ ev'.op = "on_close" /\ ev'.th = ev.th) =>
          reconnect_attempts' =
            IF ~stop_event /\ ev.preAtt < max_reconnect_attempts
            THEN ev.preAtt + 1 ELSE ev.preAtt]_vars

\* A transport failed and closed: the status went from ERROR to
\* DISCONNECTED, the counter from 0 to 1, and its thread sleeps before connect().
C13_Witness ==
  /\ ev.op = "on_close"
  /\ ev.pre = ERROR
  /\ ev.preAtt = 0
  /\ reconnect_attempts = 1
  /\ pc[ev.th] = "backoff"
  /\ last_heartbeat = HandleError

\* C14: on_close leaves the status DISCONNECTED and starts a reconnection, which
\* has not called connect() yet, exactly when no stop was requested and the
\* counter is below the maximum; after a stop it starts none.
C14_CloseThenReconnect ==
  ev.op = "on_close" =>
    /\ status = DISCONNECTED
    /\ pc[ev.th] \in {"backoff", "done"}
    /\ pc[ev.th] = "backoff" <=>
         (~ev.preStop /\ ev.preAtt < max_reconnect_attempts)
    /\ ev.preStop => (pc[ev.th] = "done" /\ reconnect_attempts = ev.preAtt)

\* A transport closed after disconnect(): no reconnection, though the counter
\* would have allowed one.
C14_Witness ==
  /\ ev.op = "on_close"
  /\ ev.preStop
  /\ ev.preAtt < max_reconnect_attempts
  /\ pc[ev.th] = "done"
  /\ status = DISCONNECTED

\* The operations in which a connect() that passed its gate returns
ConnectReturn == {"connect_wait", "connect_raise"}

\* C15: connect() started from DISCONNECTED or ERROR returns true exactly when
\* is_connected was seen within the wait; when it returns false the status is
\* ERROR or still CONNECTING.
C15_ConnectTrueIffConnected ==
  ev.op \in ConnectReturn =>
    /\ ev.ret = "true" <=> ev.preConn
    /\ ev.ret = "false" => status \in {ERROR, CONNECTING}

\* C16: a connect() whose transport creation raises returns false and leaves
\* the status ERROR, and the connect() that follows it is let through the gate.
C16_ConnectRaiseLeavesError ==
  [][/\ ev'.op = "connect_raise" =>
          /\ ev'.ret = "false"
          /\ status' = ERROR
          /\ pc'[ev'.th] \notin {"creating", "waiting"}
     /\ (ev.op = "connect_raise" /\ ev'.op \in {"connect_busy", "connect_enter"}) =>
          (ev'.op = "connect_enter" /\ status' = CONNECTING)]_vars

\* The startup retry's second connect() was let through after its first raised.
C16_Witness ==
  /\ ev.op = "connect_enter"
  /\ ev.th = 0
  /\ ev.pre = ERROR
  /\ startAttempt = 1
  /\ NumTransports = 0

\* The operations in which the startup retry's connect() returns
StartupReturn == {"connect_busy", "connect_wait", "connect_raise"}

\* C17: the startup retry numbers its attempts from 0 and makes at most
\* max_reconnect_attempts of them, sleeps min(2^attempt, 30) seconds after a failed
\* attempt that is not the last, ends at the first connect() that returns
\* true, and once ended is never started again; its attempt number and the
\* reconnect counter do not touch each other.
C17_StartupRetryRunsOnce ==
  [][/\ startAttempt' \in 0..(max_reconnect_attempts - 1)
     /\ pc[0] = "done" => (pc'[0] = "done" /\ startAttempt' = startAttempt)
     /\ ev'.op = "startup_retry" =>
          /\ pc[0] = "sleep"
          /\ ev'.n = Min(2 ^ startAttempt, 30)
          /\ startAttempt' = startAttempt + 1
          /\ reconnect_attempts' = reconnect_attempts
     /\ (ev'.op \in StartupReturn /\ ev'.th = 0) =>
          /\ ev'.ret = "true" => pc'[0] = "done"
          /\ pc'[0] = "sleep" <=>
               (~cancelled /\ ev'.ret = "false"
                  /\ startAttempt < max_reconnect_attempts - 1)
          /\ reconnect_attempts' = reconnect_attempts
          /\ startAttempt' = startAttempt
     /\ ev'.op \in {"on_open", "on_error", "on_close"} =>
          (startAttempt' = startAttempt /\ pc'[0] = pc[0])]_vars

\* The fifth attempt failed after a reconnection had connected in between (the
\* reconnect counter is back at 0): the startup retry gave up.
C17_Witness ==
  /\ ev.op \in StartupReturn
  /\ ev.th = 0
  /\ ev.ret = "false"
  /\ startAttempt = max_reconnect_attempts - 1
  /\ pc[0] = "done"
  /\ ~cancelled
  /\ NumTransports = 2

\* C18: once shutdown() has been called the status is never CONNECTING or
\* CONNECTED again.
C18_StaysDisconnectedAfterShutdown ==
  shutdowns > 0 => status \notin {CONNECTING, CONNECTED}

\* C19: get_status can be called in every state, and changes nothing: not the
\* status, the reconnect counter, the history, the registry or the last
\* heartbeat; it reports the status (disconnected when there is no client) and
\* whether the client is connected.
C19_GetStatusIsPureRead ==
  /\ [](ENABLED GetStatus)
  /\ [][ev'.op = "get_status" =>
          /\ UNCHANGED <<connVars, hubVars, reqVars, last_heartbeat>>
          /\ ev'.ret = (IF ws_client THEN status ELSE DISCONNECTED)
          /\ ev'.preConn = (ws_client /\ is_connected)]_vars

\* The status was read while the startup connect() was waiting for its
\* transport and a receive thread was asleep in its reconnect backoff.
C19_Witness ==
  /\ ev.op = "get_status"
  /\ ev.ret = DISCONNECTED
  /\ pc[0] = "waiting"
  /\ \E t \in Transports : pc[t] = "backoff"
  /\ last_heartbeat = HandleError

\* One stream over its whole life: the first request opens it on the first
\* connection once the startup task is over, agent responses arrive, and its
\* clocks run to the idle limit or to the overall timeout.
StreamInbound(n) == {[shape |-> "object", msg_type |-> "agent_response", body |-> n]}

StreamNext ==
  \/ FirstConnect
  \/ \E t \in Transports : \E m \in StreamInbound(arrived + 1) :
       arrived < MaxStreamIngest /\ OnMessage(t, m)
  \/ pc[0] = "done" /\ SendTaskStream(1, 1)
  \/ GenStart(1, FALSE)
  \/ \E dt \in {0, 1} : GenGet(1, dt)
  \/ GenTimeout(1)
  \/ GenLoopExit(1)

SpecStream == Init /\ [][StreamNext]_vars

\* C20 as stated: a stream whose queue.get() times out with more than 30
\* seconds gone since its last record (or its start) yields the complete record
\* of the idle limit, ends, and its queue is no longer registered.
C20_IdleEndsStream ==
  (ev.op = "stream_timeout" /\ ev.n > IdleLimit) =>
    /\ ev.ret = "complete_idle"
    /\ rpc[ev.th] = "done"
    /\ rtask[ev.th] \notin DOMAIN response_queues

\* C20, amended: the same, unless the overall timeout of 300 seconds has passed
\* as well, which then ends the stream in its own name; either way no stream
\* goes on after 31 seconds without a record.
C20_IdleEndsStreamBeforeTimeout ==
  /\ (ev.op = "stream_timeout" /\ ev.n > IdleLimit) =>
       /\ ev.ret = IF timer[ev.th].total < StreamTimeout
                   THEN "complete_idle" ELSE "complete_timeout"
       /\ rpc[ev.th] = "done"
       /\ rtask[ev.th] \notin DOMAIN response_queues
  /\ \A r \in Requests : rpc[r] = "streaming" => timer[r].idle <= IdleLimit

\* A stream that had received records ended on the idle limit, 31 seconds after
\* the last of them, and left the registry empty.
C20_Witness ==
  /\ ev.op = "stream_timeout"
  /\ ev.ret = "complete_idle"
  /\ ev.n = IdleLimit + 1
  /\ timer[ev.th].total > timer[ev.th].idle
  /\ rpc[ev.th] = "done"
  /\ response_queues = <<>>

\* The one stream of StreamNext with the event loop running its generator: a
\* turn of generate() that can be taken is taken.
SpecStreamFair ==
  /\ SpecStream
  /\ WF_vars(GenStart(1, FALSE))
  /\ WF_vars(\E dt \in {0, 1} : GenGet(1, dt))
  /\ WF_vars(GenTimeout(1))
  /\ WF_vars(GenLoopExit(1))

\* The streams that are over
Finished == {r \in Requests : rpc[r] = "done"}

RaceInbound(n) ==
  {m \in Inbound(n) : m.shape = "object" /\ m.msg_type \in {"agent_response", "task_result"}}

RaceNext ==
  \/ FirstConnect
  \/ \E t \in Transports : \E m \in RaceInbound(arrived + 1) :
       arrived < MaxIngest /\ IngestBegin(t, m)
  \/ \E t \in Transports : IngestStep(t)
  \/ \E r \in Requests : \E tid \in TaskIds : SendTaskStream(r, tid)
  \/ \E r \in Requests : \E raises \in BOOLEAN : GenStart(r, raises)
  \/ \E r \in Requests : GenGet(r, 0)

SpecRace == Init /\ [][RaceNext]_vars

\* C22: an ingest during whose for loop a queue is registered or unregistered
\* does not fail, and gives the record to every queue that was registered when
\* the loop began and still is when it ends.
C22_FanOutSurvivesRegistryChange ==
  ev.op = "ingest_end" =>
    /\ ev.ret = "ok"
    /\ (fanout.start \cap Registered) \subseteq fanout.got

\* The limits GET /api/responses passes on: it turns away a limit over 100
Limits == 0..100

\* C23: for every limit from 0 to 100, recent(limit) is the min(limit, history
\* length) most recent records in arrival order, so at most limit records and
\* never more than the capacity of the history.
C23_RecentReturnsAtMostLimit ==
  \A limit \in Limits :
    LET n == Len(recent_responses)
        k == Min(limit, n)
        out == get_recent_responses(limit)
    IN /\ Len(out) = k
       /\ out = SubSeq(recent_responses, n - k + 1, n)
       /\ Len(out) <= max_responses

\* C24: every inbound message that is not a heartbeat is appended to the
\* history exactly once by its ingest, and a message that is not a JSON object
\* (no JSON at all, or JSON of another kind) is stored as a raw record with no
\* parsed payload, not treated as a fault.
C24_NonObjectStoredAsRaw ==
  (ev.op = "on_message" /\ ~(ev.msg.shape = "object" /\ ev.msg.msg_type = "server_heartbeat")) =>
    /\ ev.ret = "store"
    /\ Len(recent_responses) = Min(ev.n + 1, max_responses)
    /\ LET rec == recent_responses[Len(recent_responses)] IN
         /\ rec.message = ev.msg
         /\ ev.msg.shape # "object" => (rec.msg_type = "raw" /\ rec.parsed_data = Null)

\* ------------------------------------------------------- outbound messages

\* A text is a sequence of characters.  The characters an instruction is made
\* of: plain ones, the quote, the backslash, a line feed and one outside ASCII.
Chars == {"a", "n", "\"", "\\", "LF", "U+4E2D"}
Texts(len) == UNION {[1..k -> Chars] : k \in 0..len}

\* json.dumps of one character of a str (ensure_ascii is on), and json.loads of
\* the character after a backslash
Escape(c) ==
  CASE c = "\"" -> <<"\\", "\"">>
    [] c = "\\" -> <<"\\", "\\">>
    [] c = "LF" -> <<"\\", "n">>
    [] c = "U+4E2D" -> <<"\\", "u4e2d">>
    [] OTHER -> <<c>>
Unescape(c) ==
  CASE c = "n" -> "LF"
    [] c = "u4e2d" -> "U+4E2D"
    [] OTHER -> c

RECURSIVE EscapeAll(_)
EscapeAll(s) == IF s = <<>> THEN <<>> ELSE Escape(Head(s)) \o EscapeAll(Tail(s))

\* Python values: a str, a number (by its digits) or a dict (by its items in
\* insertion order)
Str(s) == [kind |-> "str", val |-> s]
Num(n) == [kind |-> "num", val |-> ToString(n)]
Dict(items) == [kind |-> "dict", val |-> items]

\* json.dumps
JsonString(s) == <<"\"">> \o EscapeAll(s) \o <<"\"">>
RECURSIVE Dumps(_)
RECURSIVE DumpsItems(_, _)
DumpsItems(items, i) ==
  IF i > Len(items) THEN <<>>
  ELSE (IF i > 1 THEN <<",">> ELSE <<>>)
         \o JsonString(items[i][1]) \o <<":">> \o Dumps(items[i][2])
         \o DumpsItems(items, i + 1)
Dumps(v) ==
  IF v.kind = "str" THEN JsonString(v.val)
  ELSE IF v.kind = "num" THEN <<v.val>>
  ELSE <<"{">> \o DumpsItems(v.val, 1) \o <<"}">>

\* json.loads: the value that starts at position i of text t, and the position
\* after it
RECURSIVE ScanString(_, _, _)
ScanString(t, i, acc) ==
  IF t[i] = "\"" THEN [val |-> Str(acc), next |-> i + 1]
  ELSE IF t[i] = "\\" THEN ScanString(t, i + 2, Append(acc, Unescape(t[i + 1])))
  ELSE ScanString(t, i + 1, Append(acc, t[i]))
RECURSIVE ParseValue(_, _)
RECURSIVE ParseItems(_, _, _)
ParseItems(t, i, acc) ==
  LET k == ScanString(t, i + 1, <<>>)
      v == ParseValue(t, k.next + 1)
      items == Append(acc, <<k.val.val, v.val>>)
  IN IF t[v.next] = "," THEN ParseItems(t, v.next + 1, items)
     ELSE [val |-> Dict(items), next |-> v.next + 1]
ParseValue(t, i) ==
  IF t[i] = "\"" THEN ScanString(t, i + 1, <<>>)
  ELSE IF t[i] = "{"
  THEN (IF t[i + 1] = "}" THEN [val |-> Dict(<<>>), next |-> i + 2]
        ELSE ParseItems(t, i + 1, <<>>))
  ELSE [val |-> [kind |-> "num", val |-> t[i]], next |-> i + 1]
Loads(t) == ParseValue(t, 1).val

\* d[key] on a parsed dict
Get(d, key) ==
  LET i == CHOOSE j \in 1..Len(d.val) : d.val[j][1] = <<key>> IN d.val[i][2]

\* str(uuid.uuid4()) of the n-th call: 122 random bits, taken never to repeat
Uuid4(n) == <<"uuid4", ToString(n)>>

\* create_message that passes on the conversation id the client holds
create_message_with_conversation(instruction, ms, n) ==
  Dumps(Dict(<<
    <<<<"timestamp">>, Num(ms)>>,
    <<<<"conversation_id">>,
      Str(IF conversation_id = 0 THEN <<>> ELSE <<ToString(conversation_id)>>)>>,
    <<<<"msg_type">>, Str(<<"client_test">>)>>,
    <<<<"msg_id">>, Str(Uuid4(n))>>,
    <<<<"data">>, Dict(<<
       <<<<"biz_type">>, Str(<<"test_agent">>)>>,
       <<<<"instruction">>, Str(instruction)>> >>)>> >>))

\* WebSocketClient.create_message, called in millisecond ms as the n-th call
create_message(instruction, ms, n) ==
  Dumps(Dict(<<
    <<<<"timestamp">>, Num(ms)>>,
    <<<<"conversation_id">>, Str(<<>>)>>,
    <<<<"msg_type">>, Str(<<"client_test">>)>>,
    <<<<"msg_id">>, Str(Uuid4(n))>>,
    <<<<"data">>, Dict(<<
       <<<<"biz_type">>, Str(<<"test_agent">>)>>,
       <<<<"instruction">>, Str(instruction)>> >>)>> >>))

\* A caller has create_message make the message of its instruction: created
\* keeps that message, the number of calls, and the msg_ids read from the
\* messages made before.
CreateMessage(ms) ==
  /\ ws_client
  /\ created.n < MaxCreated
  /\ created' =
       [n |-> created.n + 1,
        msg_ids |-> IF created.n = 0 THEN {}
                    ELSE created.msg_ids \cup {Get(Loads(created.text), "msg_id")},
        instruction |-> created.instruction,
        text |-> create_message(created.instruction, ms, created.n + 1)]
  /\ ev' = Ev("create_message", 0, "none", FALSE, created.n + 1)
  /\ UNCHANGED <<connVars, hubVars, rpc, rtask, timer, report, last_heartbeat>>

\* Messages of one instruction, any text of up to MaxInstructionLen characters,
\* are created while session messages arrive on the first connection, once the
\* startup task is over.
SessionInbound(n) == {[shape |-> "object", msg_type |-> "server_session", body |-> n]}

MessageNext ==
  \/ FirstConnect
  \/ \E t \in Transports : \E m \in SessionInbound(arrived + 1) :
       arrived < MaxIngest /\ OnMessage(t, m)
  \/ \E ms \in TaskIds : pc[0] = "done" /\ CreateMessage(ms)

InitMessage ==
  /\ InitWith(MaxTransports)
  /\ \E x \in Texts(MaxInstructionLen) : created = [NoneCreated EXCEPT !.instruction = x]

SpecMessage == InitMessage /\ [][MessageNext]_vars

\* C25: the text create_message(x) returns decodes to a message whose
\* data.instruction is x, whose msg_id is not empty and is the msg_id of no
\* message made before, whose msg_type is the fixed one of a task submission and
\* whose conversation_id is empty, whatever conversation id the client holds.
C25_CreateMessageRoundTrip ==
  created.n > 0 =>
    LET d == Loads(created.text) IN
    /\ Get(Get(d, "data"), "instruction") = Str(created.instruction)
    /\ Get(d, "msg_id").kind = "str"
    /\ Get(d, "msg_id").val # <<>>
    /\ Get(d, "msg_id") \notin created.msg_ids
    /\ Get(d, "msg_type") = Str(<<"client_test">>)
    /\ Get(d, "conversation_id") = Str(<<>>)

\* A second message was made after a session message gave the client a
\* conversation id; its instruction is a backslash followed by a quote.
C25_Witness ==
  /\ ev.op = "create_message"
  /\ created.n = 2
  /\ conversation_id # 0
  /\ created.instruction = <<"\\", "\"">>
  /\ created.msg_ids # {}

\* The transports that are connecting or open
Live == {t \in Transports : pc[t] \in {"dialing", "opening", "recv"}}

\* C26: connect() never creates a transport while one created before is still
\* connecting or open, so at most one transport is connecting or open at a time.
C26_OneLiveTransport ==
  /\ Cardinality(Live) <= 1
  /\ ev.op = "connect_create" => Live = {ws}

\* C27: the client starts DISCONNECTED, and only on_open takes the status to
\* CONNECTED: no step of connect(), disconnect(), send_message, on_error,
\* on_close or a reconnection does.
C27_ConnectedOnlyByOnOpen ==
  /\ ev.op \in {"init", "initialize"} => status = DISCONNECTED
  /\ (status = CONNECTED /\ ev.pre # CONNECTED) => ev.op = "on_open"

\* on_open of a reconnection's transport took the status from CONNECTING to
\* CONNECTED after a shutdown had left it DISCONNECTED.
C27_Witness ==
  /\ ev.op = "on_open"
  /\ ev.pre = CONNECTING
  /\ status = CONNECTED
  /\ ev.th = 2
  /\ shutdowns > 0

\* C28: a send_message whose transport send raises, on a connection taken for
\* open, returns false and leaves the status, the reconnect counter and the
\* stop flag as they were.
C28_SendRaiseLeavesStatus ==
  (ev.op = "send_message" /\ ev.preConn /\ ev.ret = "false") =>
    /\ ev.sent
    /\ status = ev.pre
    /\ status = CONNECTED
    /\ reconnect_attempts = ev.preAtt
    /\ stop_event = ev.preStop

\* The transport send raised on a reconnection's transport, which was taken
\* for open: send_message returned false and the status is still CONNECTED.
C28_Witness ==
  /\ ev.op = "send_message"
  /\ ev.preConn
  /\ ev.sent
  /\ ev.ret = "false"
  /\ status = CONNECTED
  /\ ws = 2

\* The status report taken read by read on the event loop's thread, while the
\* receive thread of the first connection delivers its callbacks; shutdown()
\* runs on the event loop's thread as well, so not inside a get_status.
ReportNext ==
  \/ FirstConnect
  \/ \E t \in Transports : SockDown(t)
  \/ \E t \in Transports : OnError(t)
  \/ \E t \in Transports : OnClose(t)
  \/ report.at = "idle" /\ Shutdown(FALSE)
  \/ GetStatusConnected
  \/ GetStatusReport

SpecReport == Init /\ [][ReportNext]_vars

\* C29: a status report that says connected gives "connected" as its status.
C29_ReportIsOneSnapshot ==
  (ev.op = "status_report" /\ report.connected) => report.status = CONNECTED

\* The streams that are open
Active(r) == rpc[r] \in {"stream_open", "streaming"}

\* C30: two streams that are open at the same time have different task ids, and
\* every open stream's task id is registered with that stream's own queue: no
\* stream's opening replaces, and no stream's end removes, the queue of another.
C30_QueuesNeverShared ==
  /\ \A a, b \in Requests : (a # b /\ Active(a) /\ Active(b)) => rtask[a] # rtask[b]
  /\ \A r \in Requests :
       Active(r) => (rtask[r] \in DOMAIN response_queues /\ response_queues[rtask[r]] = r)

\* The capacities a run of MaxIngest messages can tell from no capacity at all
Capacities == 1..(MaxIngest - 1)

\* C31: the consumer queues have a fixed capacity: some number of pending
\* records that no queue ever exceeds, the record that would exceed it being
\* dropped for that consumer.
C31_QueuesBounded ==
  \E c \in Capacities : \A r \in Requests : Len(queue[r]) <= c

\* on_close has just found the reconnect counter at its maximum, with the stop
\* flag clear, and started no reconnection: the attempts are exhausted
ExhaustedClose ==
  /\ ev.op = "on_close"
  /\ ev.ret = "none"
  /\ ~ev.preStop
  /\ ev.preAtt >= max_reconnect_attempts

\* The receive threads with a reconnection under way: asleep in
\* _attempt_reconnect, whose connect() follows the sleep whatever has happened
\* meanwhile (lines 212-213), or inside that connect() with the transport still
\* to be created
PendingReconnects == {t \in Transports : pc[t] \in {"backoff", "creating"}}

\* C32: when the reconnection attempts are exhausted the status is ERROR or
\* DISCONNECTED, not CONNECTING, and the client is left with no reconnection
\* that will still call connect() or create a transport.
C32_ExhaustionIsTerminal ==
  ExhaustedClose =>
    /\ status \in {ERROR, DISCONNECTED}
    /\ PendingReconnects = {}

\* The handling of an inbound message has just ended in an exception: raised in
\* on_message itself (line 77), or in the response callback's for loop
HandlingRaised ==
  \/ ev.op = "on_message" /\ ev.ret = "error_callback"
  \/ ev.op = "ingest_end" /\ ev.ret = "RuntimeError"

\* C33: an exception raised while an inbound message is handled, in on_message
\* or in the response callback, is reported through the error callback (which
\* clears the heartbeat) and goes no further: the receive thread is back in its
\* loop and the status, the counter, the stop flag and the transport are as
\* they were.
C33_HandlerExceptionReported ==
  HandlingRaised =>
    /\ last_heartbeat = HandleError
    /\ pc[ev.th] = "recv"
    /\ status = ev.pre
    /\ reconnect_attempts = ev.preAtt
    /\ stop_event = ev.preStop
    /\ ws = ev.preWs

\* The records that end a stream, as the turns of generate() report them: the
\* complete record of a terminal message kind, of the overall timeout and of
\* the idle limit
FinalRecords == {"complete", "complete_timeout", "complete_idle"}

\* C34: a stream yields its records in the order of the protocol: the error
\* record alone when the send failed, else the sent record, then response
\* records while it is streaming, and it ends only on a turn that yields a
\* final record.
C34_StreamEndsWithFinalRecord ==
  /\ (ev.op = "send_message" /\ rpc[ev.th] = "done") => ev.ret = "false"
  /\ (ev.op = "send_message" /\ rpc[ev.th] = "streaming") => ev.ret = "true"
  /\ (ev.op = "stream_get" /\ ev.ret = "response") => rpc[ev.th] = "streaming"
  /\ (ev.op \in {"stream_get", "stream_timeout", "stream_exit"} /\ rpc[ev.th] = "done")
       => ev.ret \in FinalRecords

\* on_error or on_close has just been delivered for a transport that a later
\* connect() had replaced, while the transport that replaced it was open (its
\* on_open delivered, no error or close of its own) and the status CONNECTED
SupersededCallback ==
  /\ ev.op \in {"on_error", "on_close"}
  /\ ev.preWs # 0
  /\ ev.th # ev.preWs
  /\ pc[ev.preWs] = "recv"
  /\ ev.pre = CONNECTED

\* C35: the error or close callback of a superseded transport leaves the status
\* of the current connection alone: it is still CONNECTED.
C35_SupersededCallbackKeepsStatus ==
  SupersededCallback => status = CONNECTED

====
